---- MODULE Spec2Model ----
(***************************************************************************)
(* A model of backend/ml/lstm_flood_model.py: the LSTMFloodModel instance  *)
(* (its model, scaler, is_trained, training_history and model_metadata     *)
(* fields), the files it saves and loads, and its operations               *)
(* prepare_sequences, train, predict, save_model and load_model.           *)
(*                                                                         *)
(* Numbers.  Feature values are integers.  A scaled feature is the exact   *)
(* rational <<numerator, denominator>> that MinMaxScaler computes, and so  *)
(* are a simulated forecast and a confidence.  The BatchNormalization      *)
(* moving mean is a fixed-point integer in hundredths.  A native forecast  *)
(* is the term Forward(model, window): inference is a function of the      *)
(* weights, the BatchNormalization state and the window, and nothing else. *)
(*                                                                         *)
(* Libraries.  Keras and scikit-learn are modelled by what the calls in    *)
(* the source rely on.  The source does not fix the Keras version, and the *)
(* two behaviours of EarlyStopping(restore_best_weights=True) that exist   *)
(* (restoring only on the epoch that stops training, or also in            *)
(* on_train_end) are both admitted: restoreOnTrainEnd says which.          *)
(***************************************************************************)
EXTENDS Integers, Sequences, FiniteSets, TLC

VARIABLES
    TF_AVAILABLE,       \* module flag set by the tensorflow import
    SKLEARN_AVAILABLE,  \* module flag set by the sklearn / joblib import
    restoreOnTrainEnd,  \* the installed Keras: EarlyStopping restores in on_train_end
    sequence_length,    \* self.sequence_length
    model,              \* self.model
    scaler,             \* self.scaler
    is_trained,         \* self.is_trained
    training_history,   \* self.training_history
    model_metadata,     \* self.model_metadata
    fs,                 \* the files under the model directory
    fit,                \* the position of a running train call
    calls,              \* how many calls the caller has made
    ret                 \* what the last call returned or raised

vars == <<TF_AVAILABLE, SKLEARN_AVAILABLE, restoreOnTrainEnd, sequence_length,
          model, scaler, is_trained, training_history, model_metadata, fs,
          fit, calls, ret>>

instance == <<model, scaler, is_trained, training_history, model_metadata>>
flags == <<TF_AVAILABLE, SKLEARN_AVAILABLE, restoreOnTrainEnd, sequence_length>>

\* ---------------------------------------------------------------- bounds

\* The longest raw series given to prepare_sequences.
MaxSeries == 5
\* The largest sequence_length an instance is constructed with.
MaxSeqLen == 3
\* The number of calls a caller makes on one instance.
MaxCalls == 3
\* The longest window sequence given to train.
MaxTrainLen == 11
\* The largest epochs limit given to train.
MaxEpochs == 21
\* The number of distinct validation-loss levels an epoch may report.
MaxLoss == 3

\* ------------------------------------------------------------- sequences

Range(s) == {s[i] : i \in 1..Len(s)}

\* Python's s[a:b] for 0 <= a, 0 <= b (0-based, b exclusive, clipped).
Slice(s, a, b) ==
    LET hi == IF b > Len(s) THEN Len(s) ELSE b
    IN  IF a >= hi THEN <<>> ELSE [j \in 1..(hi - a) |-> s[a + j]]

\* Python's s[a:].
SliceFrom(s, a) == Slice(s, a, Len(s))

\* Python's s[:b].
SliceTo(s, b) == Slice(s, 0, b)

SetMin(S) == CHOOSE x \in S : \A z \in S : x <= z
SetMax(S) == CHOOSE x \in S : \A z \in S : x >= z

\* ---------------------------------------------------------------- scaler

NoScaler == [kind |-> "none"]
UnfittedScaler == [kind |-> "unfitted"]

\* self.scaler after construction.
NewScaler(sk) == IF sk THEN UnfittedScaler ELSE NoScaler

\* np.column_stack([rainfall, river_level]): one row <<rainfall, river>> per step.
column_stack(rainfall, river_level) ==
    [i \in 1..Len(rainfall) |-> <<rainfall[i], river_level[i]>>]

Column(features, c) == {features[i][c] : i \in 1..Len(features)}

\* MinMaxScaler.fit: the per-feature minimum and maximum of the matrix.
ScalerFit(features) ==
    [kind |-> "fitted",
     data_min |-> <<SetMin(Column(features, 1)), SetMin(Column(features, 2))>>,
     data_max |-> <<SetMax(Column(features, 1)), SetMax(Column(features, 2))>>]

\* The divisor of a column: data_max - data_min, and 1 for a constant column.
ScalerRange(sc, c) ==
    IF sc.data_max[c] = sc.data_min[c] THEN 1 ELSE sc.data_max[c] - sc.data_min[c]

\* MinMaxScaler.transform of one value of column c: (x - min) / (max - min).
ScaleValue(sc, c, x) == <<x - sc.data_min[c], ScalerRange(sc, c)>>

\* MinMaxScaler.transform of the matrix.
ScalerTransform(sc, features) ==
    [i \in 1..Len(features) |->
        <<ScaleValue(sc, 1, features[i][1]), ScaleValue(sc, 2, features[i][2])>>]

\* The matrix as prepare_sequences uses it when self.scaler is None: unscaled.
Unscaled(features) ==
    [i \in 1..Len(features) |-> <<<<features[i][1], 1>>, <<features[i][2], 1>>>>]

\* ----------------------------------------------------- prepare_sequences

\* The scaling step of prepare_sequences: the scaler afterwards, the matrix
\* afterwards, and the exception sklearn raises (an empty matrix, or
\* transform on a scaler that was never fitted).
ScaleStep(sc, features, fit_scaler) ==
    IF sc.kind = "none"
    THEN [raised |-> "", scaler |-> sc, features |-> Unscaled(features)]
    ELSE IF Len(features) = 0
    THEN [raised |-> "ValueError", scaler |-> sc, features |-> <<>>]
    ELSE IF fit_scaler
    THEN LET fitted == ScalerFit(features)
         IN  [raised |-> "", scaler |-> fitted,
              features |-> ScalerTransform(fitted, features)]
    ELSE IF sc.kind = "unfitted"
    THEN [raised |-> "NotFittedError", scaler |-> sc, features |-> <<>>]
    ELSE [raised |-> "", scaler |-> sc, features |-> ScalerTransform(sc, features)]

\* range(self.sequence_length, len(features) - 1), as the sequence of its values.
WindowEnds(L, n) ==
    IF n - 1 <= L THEN <<>> ELSE [k \in 1..(n - 1 - L) |-> L + k - 1]

\* The index of the row whose river level is the target of the window ending
\* before row i (0-based): features[i + 1, 1].
TargetRowBug(i) == i
TargetRow(i) == i + 1

\* The first row of the window ending before row i (0-based): i - sequence_length.
WindowStart(L, i) == i - L

\* The windowing loop of prepare_sequences over the scaled matrix.
BuildWindows(features, L) ==
    LET ends == WindowEnds(L, Len(features))
    IN  [X |-> [k \in 1..Len(ends) |->
                    Slice(features, WindowStart(L, ends[k]), ends[k])],
         y |-> [k \in 1..Len(ends) |-> features[TargetRow(ends[k]) + 1][2]]]

\* np.array(X): an empty list becomes a 1-D array of shape (0,), a list of
\* windows an array of shape (k, L, 2).
ArrayOf(X) == [ndim |-> IF Len(X) = 0 THEN 1 ELSE 3, rows |-> X]

\* prepare_sequences: the scaler afterwards and the returned (X, y).
prepare_sequences(sc, L, rainfall, river_level, fit_scaler) ==
    LET features == column_stack(rainfall, river_level)
        scaled == ScaleStep(sc, features, fit_scaler)
        built == BuildWindows(scaled.features, L)
    IN  IF scaled.raised # ""
        THEN [raised |-> scaled.raised, scaler |-> scaled.scaler]
        ELSE [raised |-> "", scaler |-> scaled.scaler,
              X |-> ArrayOf(built.X), y |-> built.y]

\* ----------------------------------------------------------------- model

NoModel == [kind |-> "none"]

\* _build_model: a freshly initialised network.  w names the trainable
\* weights (0: as initialised, e: as after epoch e of a fit); bn is the moving
\* mean of the BatchNormalization layers, in hundredths, initially zero.
BuildModel == [kind |-> "keras", w |-> 0, bn |-> 0]

\* BatchNormalization's momentum (the Keras default 0.99), in hundredths.
BNMomentum == 99

\* One forward pass with training=True: each BatchNormalization layer moves
\* its moving mean towards the statistic of the batch it sees,
\* moving * momentum + batch * (1 - momentum), rounded to the fixed point.
BNUpdate(bn, stat) == (BNMomentum * bn + (100 - BNMomentum) * stat + 50) \div 100

\* The batch statistics a forward pass may see (they depend on the input, the
\* weights and the dropout mask).
BatchStats == {0, 100}

RECURSIVE BNPasses(_, _, _)
\* n forward passes with training=True over the same batch.
BNPasses(bn, stat, n) ==
    IF n = 0 THEN bn ELSE BNPasses(BNUpdate(bn, stat), stat, n - 1)

\* --------------------------------------------------------------- training

\* EarlyStopping(monitor="val_loss", patience=15, restore_best_weights=True).
Patience == 15

\* EarlyStopping.on_train_begin.
NewEarlyStopping ==
    [wait |-> 0, has_best |-> FALSE, best |-> 0, best_epoch |-> 0,
     best_weights |-> NoModel, stopped_epoch |-> 0]

\* EarlyStopping._is_improvement with min_delta = 0: strictly lower loss.
IsImprovement(cb, current) == ~cb.has_best \/ current < cb.best

\* Whether on_epoch_end stops training: only checked on an epoch that did not
\* improve, after the first epoch.
PatienceExceeded(wait, epoch) == wait >= Patience /\ epoch > 0

\* EarlyStopping.on_epoch_end(epoch, logs) with logs["val_loss"] = current and
\* the model holding weights m; epoch is 0-based.
on_epoch_end(cb, epoch, current, m) ==
    IF IsImprovement(cb, current)
    THEN [cb EXCEPT !.wait = 0, !.has_best = TRUE, !.best = current,
                    !.best_epoch = epoch, !.best_weights = m]
    ELSE IF PatienceExceeded(cb.wait + 1, epoch)
    THEN [cb EXCEPT !.wait = cb.wait + 1, !.stopped_epoch = epoch]
    ELSE [cb EXCEPT !.wait = cb.wait + 1]

\* model.stop_training after on_epoch_end.
StopsTraining(cb, epoch, current) ==
    ~IsImprovement(cb, current) /\ PatienceExceeded(cb.wait + 1, epoch)

\* int(len(X_train) * 0.9).
SplitIndex(n) == (9 * n) \div 10

\* A split that takes the validation part from the front of the sequence.
TrainSplitBug(X, y) ==
    LET cut == Len(X) - SplitIndex(Len(X))
    IN  [X_train |-> SliceFrom(X, cut), y_train |-> SliceFrom(y, cut),
         X_val |-> SliceTo(X, cut), y_val |-> SliceTo(y, cut)]

\* train's derived split when X_val is None.
TrainSplit(X, y) ==
    LET split == SplitIndex(Len(X))
    IN  [X_train |-> SliceTo(X, split), y_train |-> SliceTo(y, split),
         X_val |-> SliceFrom(X, split), y_val |-> SliceFrom(y, split)]

NoMetadata == [keys |-> {}]

\* The metadata train records after a fit of n epochs.
TrainedMetadata(n, L) ==
    [keys |-> {"trained_at", "epochs", "train_loss", "train_mae", "val_loss",
               "val_mae", "sequence_length", "lstm_units"},
     epochs |-> n, sequence_length |-> L]

\* The metadata _simulate_training records; mae in hundredths.
SimulatedMetadataBug == [keys |-> {"trained_at", "mae"}, mae |-> 250]
SimulatedMetadata ==
    [keys |-> {"trained_at", "mode", "mae"}, mode |-> "simulated", mae |-> 250]

\* The history _simulate_training returns, in hundredths.
SimulatedHistory == [loss |-> <<10>>, val_loss |-> <<12>>]

\* history.history after n epochs: one entry per epoch, named by its epoch.
FitHistory(n) == [loss |-> [e \in 1..n |-> e], val_loss |-> [e \in 1..n |-> e]]

NoHistory == [loss |-> <<>>, val_loss |-> <<>>]

Idle == [pc |-> "idle"]

NoCall == [op |-> "none", raised |-> ""]

\* ------------------------------------------------------------- prediction

\* def _calculate_confidence(self, X, n_samples: int = 10).
NSamples == 10

\* The shape checks of X[:, -1, 1] and of the network's input layer: X is a
\* 3-D array whose windows have at least one row.
WellShaped(X) ==
    X.ndim = 3 /\ \A i \in 1..Len(X.rows) : Len(X.rows[i]) > 0

\* X[:, -1, 1]: the river level of the last row of each window.
LastRiver(X) == [i \in 1..Len(X.rows) |-> X.rows[i][Len(X.rows[i])][2]]

\* The draws np.random.normal(0, 0.05) may give, in hundredths.
Noise == {-5, 0, 5}

\* last * (1 + noise) for a rational last and a noise in hundredths.
Perturb(last, e) == <<last[1] * (100 + e), last[2] * 100>>

\* np.ones_like(preds) * 0.75.
SimulatedConfidence == <<75, 100>>

\* _simulate_prediction(X) with the noise drawn for each window.
simulate_prediction(X, noise) ==
    IF ~WellShaped(X)
    THEN [raised |-> "IndexError"]
    ELSE [raised |-> "",
          preds |-> [i \in 1..Len(X.rows) |-> Perturb(LastRiver(X)[i], noise[i])],
          confidence |-> [i \in 1..Len(X.rows) |-> SimulatedConfidence]]

\* Rational comparison a <= b for positive denominators.
RatLeq(a, b) == a[1] * b[2] <= b[1] * a[2]

\* np.clip(confidence, 0.5, 0.95).
ConfLow == <<50, 100>>
ConfHigh == <<95, 100>>
ClipBug(c) == IF RatLeq(ConfHigh, c) THEN ConfHigh ELSE c
Clip(c) == IF RatLeq(c, ConfLow) THEN ConfLow
           ELSE IF RatLeq(ConfHigh, c) THEN ConfHigh ELSE c

\* np.var over n_samples sampled predictions of which c lie d above the
\* others: c * (n - c) * d^2 / n^2, as a rational.
SampleVariance(c, d) == <<c * (NSamples - c) * d * d, NSamples * NSamples>>

\* 1 / (1 + variance).
RawConfidence(v) == <<v[2], v[2] + v[1]>>

\* The spread of the sampled predictions dropout may produce for a window:
\* how many of the samples differ, and by how much.
SampleDraws ==
    {[c |-> 0, d |-> 1], [c |-> 1, d |-> 1], [c |-> NSamples \div 2, d |-> 100]}

\* _calculate_confidence(X): one clipped confidence per window.
calculate_confidence(X, draws) ==
    [i \in 1..Len(X.rows) |->
        Clip(RawConfidence(SampleVariance(draws[i].c, draws[i].d)))]

\* The network's inference on one window: a function of the trainable
\* weights, the BatchNormalization moving statistics and the window, kept as
\* the term it is applied to.
Forward(m, window) == [w |-> m.w, bn |-> m.bn, x |-> window]

\* scaler.inverse_transform(dummy)[:, 1] of a scaled prediction, or the scaled
\* prediction itself when self.scaler is None.
InverseRiver(sc, p) ==
    IF sc.kind = "none" THEN [scaled |-> p, min |-> 0, range |-> 1]
    ELSE [scaled |-> p, min |-> sc.data_min[2], range |-> ScalerRange(sc, 2)]

\* predict(X, return_confidence) on the native backend: the model afterwards
\* and the returned (preds, confidence).
native_predict(m, sc, X, return_confidence, stat, draws) ==
    IF ~WellShaped(X)
    THEN [raised |-> "ValueError", model |-> m]
    ELSE IF sc.kind = "unfitted"
    THEN [raised |-> "NotFittedError", model |-> m]
    ELSE [raised |-> "",
          model |-> IF return_confidence
                    THEN [m EXCEPT !.bn = BNPasses(m.bn, stat, NSamples)]
                    ELSE m,
          preds |-> [i \in 1..Len(X.rows) |->
                        InverseRiver(sc, Forward(m, X.rows[i]))],
          has_confidence |-> return_confidence,
          confidence |-> IF return_confidence
                         THEN calculate_confidence(X, draws)
                         ELSE <<>>]

\* ------------------------------------------------------------------ files

NoFile == [kind |-> "absent"]

\* The paths save_model and load_model are called with.
Paths == {"m.h5", "m.keras"}

\* path.replace(".h5", suffix).
ReplaceH5(path, suffix) == IF path = "m.h5" THEN "m" \o suffix ELSE path

ScalerPath(path) == ReplaceH5(path, "_scaler.joblib")
MetadataPath(path) == ReplaceH5(path, "_metadata.json")

FileNames == Paths \cup {ScalerPath(p) : p \in Paths} \cup {MetadataPath(p) : p \in Paths}

EmptyFs == [f \in FileNames |-> NoFile]

\* os.path.exists.
Exists(files, name) == files[name].kind # "absent"

\* save_model(path): the files afterwards.  The three writes happen in order,
\* each replacing what its path held.
save_model(tf, m, sc, md, files, path) ==
    LET f1 == IF tf /\ m.kind # "none"
              THEN [files EXCEPT ![path] = [kind |-> "keras", model |-> m]]
              ELSE files
        f2 == IF sc.kind # "none"
              THEN [f1 EXCEPT ![ScalerPath(path)] = [kind |-> "joblib", scaler |-> sc]]
              ELSE f1
    IN  [f2 EXCEPT ![MetadataPath(path)] = [kind |-> "json", metadata |-> md]]

\* load_model(path): the instance's fields afterwards and the exception, if
\* a file does not hold what its reader expects or joblib was never imported.
\* Fields assigned before the exception keep their new values.
load_model(tf, sk, m, sc, trained, md, files, path) ==
    LET has_w == tf /\ Exists(files, path)
        bad_w == has_w /\ files[path].kind # "keras"
        m1 == IF has_w /\ ~bad_w THEN files[path].model ELSE m
        t1 == IF has_w /\ ~bad_w THEN TRUE ELSE trained
        has_s == Exists(files, ScalerPath(path))
        bad_s == has_s /\ (~sk \/ files[ScalerPath(path)].kind # "joblib")
        sc1 == IF has_s /\ ~bad_s THEN files[ScalerPath(path)].scaler ELSE sc
        has_md == Exists(files, MetadataPath(path))
        bad_md == has_md /\ files[MetadataPath(path)].kind # "json"
        md1 == IF has_md /\ ~bad_md THEN files[MetadataPath(path)].metadata ELSE md
    IN  IF bad_w
        THEN [raised |-> "OSError", model |-> m, is_trained |-> trained,
              scaler |-> sc, model_metadata |-> md]
        ELSE IF bad_s
        THEN [raised |-> IF sk THEN "UnpicklingError" ELSE "NameError",
              model |-> m1, is_trained |-> t1, scaler |-> sc, model_metadata |-> md]
        ELSE IF bad_md
        THEN [raised |-> "JSONDecodeError", model |-> m1, is_trained |-> t1,
              scaler |-> sc1, model_metadata |-> md]
        ELSE [raised |-> "", model |-> m1, is_trained |-> t1, scaler |-> sc1,
              model_metadata |-> md1]

\* __init__(model_path): the fields after construction; model_path "" is None.
construct(tf, sk, files, model_path) ==
    IF model_path # "" /\ Exists(files, model_path)
    THEN load_model(tf, sk, NoModel, NewScaler(sk), FALSE, NoMetadata, files,
                    model_path)
    ELSE [raised |-> "", model |-> IF tf THEN BuildModel ELSE NoModel,
          is_trained |-> FALSE, scaler |-> NewScaler(sk),
          model_metadata |-> NoMetadata]

\* ---------------------------------------------------------------- actions

\* No train call is running (the instance's methods are synchronous) and the
\* caller has calls left.
Callable == fit.pc = "idle" /\ calls < MaxCalls

\* The fit_scaler argument as the caller writes it: left out, True or False.
FitScalerArgs == {"omitted", "True", "False"}

\* fit_scaler: bool = True.
FitScalerValue(arg) == arg \in {"omitted", "True"}

\* prepare_sequences(rainfall, river_level, fit_scaler).
PrepareSequences(rainfall, river_level, arg) ==
    LET r == prepare_sequences(scaler, sequence_length, rainfall, river_level,
                               FitScalerValue(arg))
    IN  /\ Callable
        /\ scaler' = r.scaler
        /\ ret' = IF r.raised # ""
                  THEN [op |-> "prepare_sequences", raised |-> r.raised,
                        fit_scaler |-> arg]
                  ELSE [op |-> "prepare_sequences", raised |-> "",
                        fit_scaler |-> arg,
                        features |-> column_stack(rainfall, river_level),
                        X |-> r.X, y |-> r.y]
        /\ calls' = calls + 1
        /\ UNCHANGED <<flags, model, is_trained, training_history,
                       model_metadata, fs, fit>>

\* _simulate_training.
SimulateTraining ==
    /\ is_trained' = TRUE
    /\ model_metadata' = SimulatedMetadata
    /\ ret' = [op |-> "train", raised |-> "", done |-> TRUE,
               simulated |-> TRUE, history |-> SimulatedHistory]
    /\ UNCHANGED <<flags, model, scaler, training_history, fs, fit>>

\* train(X_train, y_train, X_val, y_val, epochs) up to the call of model.fit:
\* the simulation fallback, or the derived split and the callbacks.  X_val is
\* either None (has_val = FALSE) or the caller's validation set.  The call
\* passes no model_save_path, so no ModelCheckpoint is installed;
\* ReduceLROnPlateau changes the optimizer's learning rate only, which is no
\* part of the state kept here.
TrainStart(X, y, has_val, X_val, y_val, epochs, stat) ==
    /\ Callable
    /\ calls' = calls + 1
    /\ IF ~TF_AVAILABLE \/ model.kind = "none"
       THEN SimulateTraining
       ELSE LET parts == IF has_val
                         THEN [X_train |-> X, y_train |-> y,
                               X_val |-> X_val, y_val |-> y_val]
                         ELSE TrainSplit(X, y)
            IN  /\ fit' = [pc |-> "fit", derived |-> ~has_val, X |-> X, y |-> y,
                           X_train |-> parts.X_train, y_train |-> parts.y_train,
                           X_val |-> parts.X_val, y_val |-> parts.y_val,
                           epochs |-> epochs, epoch |-> 0, stat |-> stat,
                           stop |-> FALSE, improved |-> 0,
                           cb |-> NewEarlyStopping]
                /\ ret' = [op |-> "train", raised |-> "", done |-> FALSE]
                /\ UNCHANGED <<flags, instance, fs>>

\* model.fit refuses an empty training or validation set.
FitRaises ==
    /\ fit.pc = "fit"
    /\ fit.epoch = 0
    /\ Len(fit.X_train) = 0 \/ Len(fit.X_val) = 0
    /\ fit' = Idle
    /\ ret' = [op |-> "train", raised |-> "ValueError"]
    /\ UNCHANGED <<flags, instance, fs, calls>>

\* One epoch of model.fit: the weights move, the BatchNormalization layers
\* absorb the epoch's batches, then EarlyStopping.on_epoch_end sees the
\* epoch's validation loss.  A Keras that does not restore in on_train_end
\* restores the best weights here, on the epoch that stops training.
FitEpoch(val_loss) ==
    /\ fit.pc = "fit"
    /\ Len(fit.X_train) > 0 /\ Len(fit.X_val) > 0
    /\ ~fit.stop
    /\ fit.epoch < fit.epochs
    /\ LET m == [kind |-> "keras", w |-> fit.epoch + 1,
                 bn |-> BNUpdate(model.bn, fit.stat)]
           cb == on_epoch_end(fit.cb, fit.epoch, val_loss, m)
           stop == StopsTraining(fit.cb, fit.epoch, val_loss)
       IN  /\ model' = IF stop /\ ~restoreOnTrainEnd THEN cb.best_weights ELSE m
           /\ fit' = [fit EXCEPT !.epoch = fit.epoch + 1, !.cb = cb,
                                 !.stop = stop,
                                 !.improved = IF IsImprovement(fit.cb, val_loss)
                                              THEN fit.epoch + 1
                                              ELSE fit.improved]
    /\ UNCHANGED <<flags, scaler, is_trained, training_history,
                   model_metadata, fs, calls, ret>>

\* The end of model.fit (on_train_end) and the rest of train: is_trained, the
\* history and the metadata.
FitEnd ==
    /\ fit.pc = "fit"
    /\ fit.epoch > 0
    /\ fit.stop \/ fit.epoch = fit.epochs
    /\ model' = IF restoreOnTrainEnd /\ fit.cb.best_weights.kind # "none"
                THEN fit.cb.best_weights
                ELSE model
    /\ is_trained' = TRUE
    /\ training_history' = FitHistory(fit.epoch)
    /\ model_metadata' = TrainedMetadata(fit.epoch, sequence_length)
    /\ ret' = [op |-> "train", raised |-> "", done |-> TRUE,
               simulated |-> FALSE, epochs |-> fit.epochs, history |-> FitHistory(fit.epoch),
               stopped |-> fit.stop, improved |-> fit.improved,
               best_weights |-> fit.cb.best_weights]
    /\ fit' = Idle
    /\ UNCHANGED <<flags, scaler, fs, calls>>

\* predict(X, return_confidence).  noise is the simulation's draw for each
\* window; stat and draws are what the dropout passes of the native backend
\* produce.  _simulate_prediction is not passed return_confidence and always
\* returns a confidence array.  The returned record also notes the argument.
Predict(X, return_confidence, noise, stat, draws) ==
    /\ Callable
    /\ IF ~TF_AVAILABLE \/ model.kind = "none"
       THEN LET r == simulate_prediction(X, noise)
            IN  /\ ret' = IF r.raised # ""
                          THEN [op |-> "predict", raised |-> r.raised,
                                backend |-> "simulation", X |-> X]
                          ELSE [op |-> "predict", raised |-> "",
                                backend |-> "simulation", X |-> X,
                                return_confidence |-> return_confidence,
                                preds |-> r.preds, has_confidence |-> TRUE,
                                confidence |-> r.confidence]
                /\ UNCHANGED model
       ELSE LET r == native_predict(model, scaler, X, return_confidence, stat, draws)
            IN  /\ ret' = IF r.raised # ""
                          THEN [op |-> "predict", raised |-> r.raised,
                                backend |-> "native", X |-> X]
                          ELSE [op |-> "predict", raised |-> "",
                                backend |-> "native", X |-> X,
                                return_confidence |-> return_confidence,
                                preds |-> r.preds,
                                has_confidence |-> r.has_confidence,
                                confidence |-> r.confidence]
                /\ model' = r.model
    /\ calls' = calls + 1
    /\ UNCHANGED <<flags, scaler, is_trained, training_history, model_metadata,
                   fs, fit>>

\* save_model(path).
SaveModel(path) ==
    /\ Callable
    /\ fs' = save_model(TF_AVAILABLE, model, scaler, model_metadata, fs, path)
    /\ ret' = [op |-> "save_model", raised |-> "", path |-> path]
    /\ calls' = calls + 1
    /\ UNCHANGED <<flags, instance, fit>>

\* load_model(path).  The returned record also notes which artifacts the
\* path held when the call was made.
LoadModel(path) ==
    LET r == load_model(TF_AVAILABLE, SKLEARN_AVAILABLE, model, scaler,
                        is_trained, model_metadata, fs, path)
    IN  /\ Callable
        /\ model' = r.model
        /\ scaler' = r.scaler
        /\ is_trained' = r.is_trained
        /\ model_metadata' = r.model_metadata
        /\ ret' = [op |-> "load_model", raised |-> r.raised, path |-> path,
                   had_weights |-> Exists(fs, path),
                   had_scaler |-> Exists(fs, ScalerPath(path)),
                   had_metadata |-> Exists(fs, MetadataPath(path))]
        /\ calls' = calls + 1
        /\ UNCHANGED <<flags, training_history, fs, fit>>

\* The windows and targets train is given, named by their position: window i
\* is i and its target is -i.
TrainX(n) == [i \in 1..n |-> i]
TrainY(n) == [i \in 1..n |-> 0 - i]

\* The caller's own validation set.
CallerXVal == <<101>>
CallerYVal == <<-101>>

\* ------------------------------------------- specification: lifecycle

\* A bundle another process saved under "m.h5".
StoredModel == [kind |-> "keras", w |-> 7, bn |-> 30]
StoredScaler == [kind |-> "fitted", data_min |-> <<0, 0>>, data_max |-> <<4, 8>>]
StoredMetadata == TrainedMetadata(7, MaxSeqLen)

\* Which artifacts of the stored bundle are on disk before construction:
\* none, all three, the weights alone, or the scaler and metadata alone.
StoredParts ==
    {<<FALSE, FALSE, FALSE>>, <<TRUE, TRUE, TRUE>>, <<TRUE, FALSE, FALSE>>,
     <<FALSE, TRUE, TRUE>>}

InitialFiles ==
    {[f \in FileNames |->
        IF f = "m.h5" /\ p[1] THEN [kind |-> "keras", model |-> StoredModel]
        ELSE IF f = ScalerPath("m.h5") /\ p[2]
        THEN [kind |-> "joblib", scaler |-> StoredScaler]
        ELSE IF f = MetadataPath("m.h5") /\ p[3]
        THEN [kind |-> "json", metadata |-> StoredMetadata]
        ELSE NoFile] : p \in StoredParts}

\* The state after LSTMFloodModel(sequence_length, model_path=...) returned.
Init ==
    /\ TF_AVAILABLE \in BOOLEAN
    /\ SKLEARN_AVAILABLE \in BOOLEAN
    /\ restoreOnTrainEnd = TRUE
    /\ sequence_length = MaxSeqLen
    /\ fs \in InitialFiles
    /\ \E model_path \in {"", "m.h5"} :
        LET c == construct(TF_AVAILABLE, SKLEARN_AVAILABLE, fs, model_path)
        IN  /\ c.raised = ""
            /\ model = c.model
            /\ scaler = c.scaler
            /\ is_trained = c.is_trained
            /\ model_metadata = c.model_metadata
            /\ ret = [op |-> "__init__", raised |-> "", path |-> model_path,
                      had_weights |-> model_path # "" /\ Exists(fs, model_path),
                      had_scaler |-> model_path # "" /\ Exists(fs, ScalerPath("m.h5")),
                      had_metadata |-> model_path # "" /\ Exists(fs, MetadataPath("m.h5"))]
    /\ training_history = NoHistory
    /\ fit = Idle
    /\ calls = 0

\* The raw series the caller prepares: one too short for a window, and two
\* with different ranges.
ShortSeries == [rainfall |-> <<0>>, river_level |-> <<1>>]
SeriesA == [rainfall |-> [i \in 1..(MaxSeqLen + 2) |-> i % 2],
            river_level |-> [i \in 1..(MaxSeqLen + 2) |-> 1 + 2 * (i % 2)]]
SeriesB == [rainfall |-> [i \in 1..(MaxSeqLen + 3) |-> i % 3],
            river_level |-> [i \in 1..(MaxSeqLen + 3) |-> i]]
CallerSeries == {ShortSeries, SeriesA, SeriesB}

\* The window arrays the caller predicts on: what prepare_sequences returns
\* for its series.
CallerWindows ==
    {prepare_sequences(UnfittedScaler, MaxSeqLen, s.rainfall, s.river_level, TRUE).X :
        s \in CallerSeries}

LossLevels == 1..MaxLoss

Epoch == \E val_loss \in LossLevels : FitEpoch(val_loss)

Prepare ==
    \E s \in CallerSeries, arg \in FitScalerArgs :
        PrepareSequences(s.rainfall, s.river_level, arg)

Train ==
    \E n \in {1, MaxSeqLen + 1}, stat \in BatchStats :
        TrainStart(TrainX(n), TrainY(n), FALSE, CallerXVal, CallerYVal, 1, stat)

\* A predict call; only the draws the backend in use makes are enumerated.
PredictCall ==
    \E X \in CallerWindows, return_confidence \in BOOLEAN :
        IF ~TF_AVAILABLE \/ model.kind = "none"
        THEN \E noise \in [1..Len(X.rows) -> Noise] :
                Predict(X, return_confidence, noise, 0, <<>>)
        ELSE IF return_confidence
        THEN \E stat \in BatchStats, draws \in [1..Len(X.rows) -> SampleDraws] :
                Predict(X, TRUE, <<>>, stat, draws)
        ELSE Predict(X, FALSE, <<>>, 0, <<>>)

Save == \E path \in Paths : SaveModel(path)

Load == \E path \in Paths : LoadModel(path)

Next == Prepare \/ Train \/ FitRaises \/ Epoch \/ FitEnd \/ PredictCall
            \/ Save \/ Load

Spec == Init /\ [][Next]_vars

\* ------------------------------------------- specification: windowing

\* The raw series prepare_sequences is given: equally long rainfall and
\* river-level readings.
RainLevels == {0, 1}
RiverLevels == {1, 3}
SeriesOf(n) == [rainfall : [1..n -> RainLevels], river_level : [1..n -> RiverLevels]]
AllSeries == UNION {SeriesOf(n) : n \in 0..MaxSeries}

\* A scaler fitted by an earlier call on another series.
OldScaler == [kind |-> "fitted", data_min |-> <<0, 1>>, data_max |-> <<1, 3>>]

InitSeq ==
    /\ TF_AVAILABLE = FALSE
    /\ SKLEARN_AVAILABLE \in BOOLEAN
    /\ restoreOnTrainEnd = FALSE
    /\ sequence_length \in 0..MaxSeqLen
    /\ model = NoModel
    /\ scaler \in IF SKLEARN_AVAILABLE THEN {UnfittedScaler, OldScaler} ELSE {NoScaler}
    /\ is_trained = FALSE
    /\ training_history = NoHistory
    /\ model_metadata = NoMetadata
    /\ fs = EmptyFs
    /\ fit = Idle
    /\ calls = 0
    /\ ret = NoCall

SeqCall ==
    /\ ret.op = "none"
    /\ \E s \in AllSeries, arg \in {"omitted", "False"} :
           PrepareSequences(s.rainfall, s.river_level, arg)

NextSeq == SeqCall

SpecSeq == InitSeq /\ [][NextSeq]_vars

\* -------------------------------------------- specification: training

\* The train calls: every length with one epoch, and every epochs limit on
\* the longest input; each with and without the caller's validation set.
TrainCalls ==
    {[n |-> n, epochs |-> 1] : n \in 0..MaxTrainLen}
        \cup {[n |-> MaxTrainLen, epochs |-> e] : e \in 1..MaxEpochs}

InitTrain ==
    /\ TF_AVAILABLE \in BOOLEAN
    /\ SKLEARN_AVAILABLE = TRUE
    /\ restoreOnTrainEnd \in BOOLEAN
    /\ sequence_length = MaxSeqLen
    /\ model = IF TF_AVAILABLE THEN BuildModel ELSE NoModel
    /\ scaler = UnfittedScaler
    /\ is_trained = FALSE
    /\ training_history = NoHistory
    /\ model_metadata = NoMetadata
    /\ fs = EmptyFs
    /\ fit = Idle
    /\ calls = 0
    /\ ret = NoCall

TrainCall ==
    /\ ret.op = "none"
    /\ \E c \in TrainCalls, has_val \in BOOLEAN, stat \in BatchStats :
           TrainStart(TrainX(c.n), TrainY(c.n), has_val, CallerXVal, CallerYVal,
                      c.epochs, stat)

NextTrain == TrainCall \/ FitRaises \/ Epoch \/ FitEnd

SpecTrain == InitTrain /\ [][NextTrain]_vars

\* ------------------------------------------------------------- claims

\* The scaled series the last prepare_sequences call windowed.
ScaledSeries ==
    IF scaler.kind = "none" THEN Unscaled(ret.features)
    ELSE ScalerTransform(scaler, ret.features)

\* C1: for an N-row series and sequence_length L with N - L - 1 >= 0,
\* prepare_sequences returns exactly N - L - 1 windows and targets in
\* temporal order; window k (from 0) is rows k .. k+L-1 of the scaled series
\* in order and its target is the scaled river level of row k+L+1.
C1_Windows ==
    (ret.op = "prepare_sequences" /\ ret.raised = "") =>
        LET N == Len(ret.features)
            L == sequence_length
            S == ScaledSeries
        IN  N - L - 1 >= 0 =>
                /\ Len(ret.X.rows) = N - L - 1
                /\ Len(ret.y) = N - L - 1
                /\ \A k \in 0..(N - L - 2) :
                    /\ ret.X.rows[k + 1] = [j \in 1..L |-> S[k + j]]
                    /\ ret.y[k + 1] = S[k + L + 2][2]

\* C1 witness: a freshly fitted call on the longest series that returns at
\* least two different windows with different targets.
C1_Witness ==
    /\ ret.op = "prepare_sequences" /\ ret.raised = ""
    /\ ret.fit_scaler = "omitted" /\ scaler.kind = "fitted"
    /\ Len(ret.features) = MaxSeries
    /\ sequence_length = 2
    /\ Len(ret.X.rows) = MaxSeries - 3
    /\ ret.X.rows[1] # ret.X.rows[2]
    /\ ret.y[1] # ret.y[2]

\* C2: every confidence predict returns lies within [0.5, 0.95], on the
\* native backend for every variance of the sampled predictions and on the
\* simulated backend.
C2_ConfidenceInRange ==
    (ret.op = "predict" /\ ret.raised = "" /\ ret.has_confidence) =>
        \A i \in 1..Len(ret.confidence) :
            LET c == ret.confidence[i]
            IN  c[2] > 0 /\ 2 * c[1] >= c[2] /\ 100 * c[1] <= 95 * c[2]

\* C2 witness: a native predict on two windows whose sampled variance is
\* huge for the first (clipped to 0.5) and small for the second (100/109,
\* not clipped).
C2_Witness ==
    /\ ret.op = "predict" /\ ret.raised = "" /\ ret.backend = "native"
    /\ ret.has_confidence
    /\ Len(ret.confidence) = 2
    /\ ret.confidence[1] = <<50, 100>>
    /\ ret.confidence[2] = <<100, 109>>

\* A native train call has returned.
TrainReturned ==
    ret.op = "train" /\ ret.raised = "" /\ ret.done /\ ~ret.simulated

\* The number of epochs the returned fit ran.
EpochsRun == Len(ret.history.loss)

\* C3 (first half): training halts no later than Patience epochs after the
\* last epoch at which the validation loss improved.
C3_HaltsWithinPatience ==
    TrainReturned => EpochsRun <= ret.improved + Patience

\* C3 (early stop): when EarlyStopping stopped the fit, the model holds the
\* weights of the last improving epoch, the best one.
C3_StoppedRestoresBest ==
    (TrainReturned /\ ret.stopped) =>
        (model.w = ret.improved /\ model = ret.best_weights)

\* C3: when train returns, training has run at most Patience epochs past the
\* last improving epoch and the model holds the weights of that best epoch,
\* also when the epochs limit ended the run.
C3_BestWeightsOnReturn ==
    TrainReturned =>
        (EpochsRun <= ret.improved + Patience /\ model.w = ret.improved)

\* C4: a predict call leaves the model (weights and BatchNormalization
\* state), the scaler and the metadata as they were.
C4_PredictLeavesModel ==
    [][(ret'.op = "predict" /\ calls' = calls + 1) =>
            (model' = model /\ scaler' = scaler
                /\ model_metadata' = model_metadata)]_vars

\* C5: once the scaler is fitted, a prepare_sequences, predict, train or
\* save_model call leaves it unchanged unless the caller passed
\* fit_scaler=True.
C5_ScalerFrozen ==
    [][(/\ scaler.kind = "fitted"
        /\ ret'.op \in {"prepare_sequences", "predict", "train", "save_model"}
        /\ ~(ret'.op = "prepare_sequences" /\ ret'.fit_scaler = "True"))
            => scaler' = scaler]_vars

\* C6: with no X_val, the derived split is the last tenth of the sequence in
\* order: train part then validation part is the original sequence, the
\* validation part holds the last ceil(n/10) windows, every validation window
\* comes after every training window, and y is split where X is.
C6_SplitIsTail ==
    (fit.pc = "fit" /\ fit.derived) =>
        LET n == Len(fit.X)
            v == Len(fit.X_val)
        IN  /\ fit.X_train \o fit.X_val = fit.X
            /\ fit.y_train \o fit.y_val = fit.y
            /\ 10 * v >= n /\ (v > 0 => 10 * (v - 1) < n)
            /\ \A a \in Range(fit.X_train), b \in Range(fit.X_val) : a < b
            /\ Range(fit.X_train) \cap Range(fit.X_val) = {}
            /\ Len(fit.y_train) = Len(fit.X_train)
            /\ \A i \in 1..Len(fit.X_train) : fit.y_train[i] = 0 - fit.X_train[i]
            /\ \A i \in 1..v : fit.y_val[i] = 0 - fit.X_val[i]

\* C6 witness: a derived split of the longest input, with a validation part
\* of more than one window and a running fit.
C6_Witness ==
    /\ fit.pc = "fit" /\ fit.derived /\ fit.epoch > 0
    /\ Len(fit.X) = MaxTrainLen
    /\ Len(fit.X_val) = 2
    /\ Len(fit.X_train) = MaxTrainLen - 2

\* The simulation backend answers: TF is missing or self.model is None.
Simulating == ~TF_AVAILABLE \/ model.kind = "none"

\* What C7 says of a simulated train call that has returned.
SimulatedTrainContract ==
    /\ ret.raised = ""
    /\ model.kind = "none" /\ training_history = NoHistory
    /\ is_trained
    /\ "mode" \in model_metadata.keys /\ model_metadata.mode = "simulated"
    /\ "mae" \in model_metadata.keys /\ 2 * model_metadata.mae = 5 * 100
    /\ Len(ret.history.loss) = 1 /\ Len(ret.history.val_loss) = 1

\* What C7 says of a simulated predict call that has returned: per window,
\* the river level of the window's last row times (1 + noise), and
\* confidence 0.75.
SimulatedPredictContract ==
    /\ ret.raised = ""
    /\ Len(ret.preds) = Len(ret.X.rows)
    /\ Len(ret.confidence) = Len(ret.X.rows)
    /\ \A i \in 1..Len(ret.X.rows) :
        LET w == ret.X.rows[i]
            last == w[Len(w)][2]
            p == ret.preds[i]
        IN  /\ \E e \in Noise :
                p[1] * last[2] * 100 = last[1] * (100 + e) * p[2]
            /\ 4 * ret.confidence[i][1] = 3 * ret.confidence[i][2]

C8_SimulatedIsTagged ==
    (ret.op = "predict" /\ ret.raised = "" /\ ret.backend = "simulation") =>
        ("mode" \in model_metadata.keys /\ model_metadata.mode = "simulated")

\* C9: load_model, and construction with a model_path, on a path whose
\* weights artifact is absent raises.
C9_MissingWeightsIsFatal ==
    (ret.op \in {"load_model", "__init__"} /\ ret.path # "" /\ ~ret.had_weights)
        => ret.raised # ""

\* C10: after load_model has loaded the weights of a bundle, a scaler or
\* metadata artifact the bundle lacks leaves the instance with the default
\* scaler or the empty metadata.
C10_LoadReplacesWholesale ==
    (ret.op = "load_model" /\ ret.raised = "" /\ TF_AVAILABLE /\ ret.had_weights) =>
        /\ (~ret.had_scaler => scaler = NewScaler(SKLEARN_AVAILABLE))
        /\ (~ret.had_metadata => model_metadata = NoMetadata)

\* The three artifact names save_model(path) writes to.
ArtifactsOf(path) == {path, ScalerPath(path), MetadataPath(path)}

\* load_model(path) called on a fresh instance, LSTMFloodModel(), of the same
\* process: the fields it ends with and the exception, if any.
FreshLoad(path) ==
    LET c == construct(TF_AVAILABLE, SKLEARN_AVAILABLE, fs, "")
    IN  load_model(TF_AVAILABLE, SKLEARN_AVAILABLE, c.model, c.scaler,
                   c.is_trained, c.model_metadata, fs, path)

\* A fresh instance loaded from path holds the weights, the scaler
\* parameters and the metadata this instance holds.
RestoresInstance(path) ==
    LET r == FreshLoad(path)
    IN  /\ r.raised = ""
        /\ r.model = model
        /\ r.scaler = scaler
        /\ r.model_metadata = model_metadata

\* C11: once save_model(path) has returned on an instance with the native
\* backend and a scaler, for either kind of path, the three artifacts are
\* distinct files and load_model(path) on a fresh instance restores the
\* weights, scaler parameters and metadata that were saved.
C11_SaveLoadRoundTrip ==
    (ret.op = "save_model" /\ TF_AVAILABLE /\ SKLEARN_AVAILABLE) =>
        /\ Cardinality(ArtifactsOf(ret.path)) = 3
        /\ RestoresInstance(ret.path)

\* The same for paths ending in ".h5" only.
H5RoundTrip ==
    (ret.op = "save_model" /\ TF_AVAILABLE /\ SKLEARN_AVAILABLE
        /\ ret.path = "m.h5") =>
        /\ Cardinality(ArtifactsOf(ret.path)) = 3
        /\ RestoresInstance(ret.path)

\* A trained and fitted instance has been saved under "m.h5".
H5RoundTripWitness ==
    /\ ret.op = "save_model" /\ ret.path = "m.h5"
    /\ TF_AVAILABLE /\ SKLEARN_AVAILABLE
    /\ model.w = 1 /\ scaler.kind = "fitted"

\* C12: a prepare_sequences call that returns without raising was given a
\* series at least sequence_length long and returns at least one window: a
\* series too short for one window raises instead of giving an empty result.
C12_ShortSeriesRaises ==
    (ret.op = "prepare_sequences" /\ ret.raised = "") =>
        /\ Len(ret.features) >= sequence_length
        /\ Len(ret.X.rows) > 0

\* Forecast i of a returned predict call was computed from window i: by the
\* network's forward pass over it, or from its last river level.
InWindowOrder ==
    \A i \in 1..Len(ret.X.rows) :
        IF ret.backend = "native"
        THEN ret.preds[i].scaled.x = ret.X.rows[i]
        ELSE LET w == ret.X.rows[i]
                 last == w[Len(w)][2]
                 p == ret.preds[i]
             IN  \E e \in Noise :
                    p[1] * last[2] * 100 = last[1] * (100 + e) * p[2]

\* A returned predict call on k windows gave k forecasts in window order,
\* and k confidence values exactly when return_confidence was true.
PredictContract ==
    /\ Len(ret.preds) = Len(ret.X.rows)
    /\ InWindowOrder
    /\ ret.has_confidence <=> ret.return_confidence
    /\ ret.has_confidence => Len(ret.confidence) = Len(ret.X.rows)

\* C13: on the native and on the simulated backend alike, predict on k
\* windows returns k forecasts in window order, and a confidence sequence of
\* k values if and only if return_confidence is true.
C13_PredictShape ==
    (ret.op = "predict" /\ ret.raised = "") => PredictContract

\* The same for the native backend only.
NativePredictShape ==
    (ret.op = "predict" /\ ret.raised = "" /\ ret.backend = "native")
        => PredictContract

\* A native predict call on two windows returned forecasts and no confidence.
NativePredictShapeWitness ==
    /\ ret.op = "predict" /\ ret.raised = "" /\ ret.backend = "native"
    /\ Len(ret.preds) = 2 /\ ~ret.return_confidence

====
